---- MODULE Spec2Model ----
(***************************************************************************)
(* Acquisition pipeline of foss-vital: the rate limiter and its request    *)
(* queue (src/src/utils/rate-limiter.ts), the in-memory cache              *)
(* (services/cache.ts) and the cache-first orchestration of the GitHub and *)
(* project services (src/src/services/github.ts, project.ts, api/index.ts).*)
(*                                                                         *)
(* Time.  Date.now() grows without bound, so every timestamp the program   *)
(* stores is kept as its signed distance from the current instant, in      *)
(* model time units:                                                       *)
(*   state.reset   = this.state.reset - Date.now(), saturated below at -1  *)
(*                   (the code only asks Date.now() > reset, and the       *)
(*                   positive part of reset - Date.now());                 *)
(*   worker.timer  = time left until a pending setTimeout may fire;        *)
(*   entry.age     = Date.now() - item.timestamp, saturated above at       *)
(*                   MaxAge (the code only asks age > ttl).                *)
(* Tick lets one unit of time pass.  A timer fires at or after its         *)
(* deadline, as setTimeout does.                                           *)
(***************************************************************************)
EXTENDS Integers, Sequences, FiniteSets, TLC

\* ------------------------------------------------------------- bounds
MaxTasks == 3      \* tasks submitted to the queue in one behaviour
MaxLimit == 2      \* largest quota limit (60 / 5000 in the source, scaled)
MaxReset == 2      \* furthest reset time a response may announce, from now

\* Quota window, 3600000 ms in the source, in model time units.
Window == 3
\* Spacing between two requests, 100 ms in the source, in model time units.
Delay == 1

MaxRepos == 2      \* repositories (owner/repo pairs) asked about
MaxTtl == 2        \* longest explicit ttl given to set
MaxGets == 3       \* orchestrator calls (get, refresh) in one behaviour
MaxOrchTasks == 22 \* upstream calls those orchestrator calls submit in all
MaxCalls == 2      \* makeRequest calls in one behaviour of the Fetcher alone

\* appConfig.cache.maxSize (CACHE_MAX_SIZE, 10000 by default), scaled.
maxSize == 2
\* appConfig.cache.ttl (CACHE_TTL, 3 days by default), in model time units.
defaultTtl == 2

None == -9         \* an absent header / no task / no value
Healed == -8       \* zeroT once canMakeRequest has reset the state

VARIABLES
  state,             \* RateLimiter.state: [remaining, reset, limit, used]
  requestQueue,      \* RateLimiter.requestQueue: task ids, oldest first
  isProcessingQueue, \* RateLimiter.isProcessingQueue
  workers,           \* activations of processQueue: [pc, task, timer] each
  tasks,             \* every task submitted so far: [status, get, ep] each
  startOrder,        \* history: the tasks whose requestFn was invoked, in order
  zeroT,             \* history: the reset time T a response announced with
                     \* remaining = 0 (None: none since; Healed: reset since)
  admit,             \* history: what canMakeRequest returned in the step just
                     \* taken ("yes", "no"; "none": it was not called)
  cache,             \* CacheService.cache: the Map's entries in insertion
                     \* order, [key, data, age, ttl] each
  probe,             \* history of one key: "never" set, "gone" (deleted or
                     \* evicted since), or [key, v, ttl, since] of its last set
                     \* (SpecMemo: of the first get that returned a value)
  gets,              \* the orchestrator calls made so far: [kind, repo,
                     \* refresh, left, failed, status, result, stale] each
  stale,             \* history, per repository: the values its keys held
                     \* when a refresh of it was called
  ev                 \* history: the operation of the step just taken (kept
                     \* where the rate limiter or the cache is driven alone)

qvars == <<state, requestQueue, isProcessingQueue, workers, tasks, startOrder,
           zeroT, admit>>
cvars == <<cache, probe>>
ovars == <<gets, stale>>
vars == <<qvars, cvars, ovars, ev>>

Max(a, b) == IF a > b THEN a ELSE b
Min(a, b) == IF a < b THEN a ELSE b

\* ---------------------------------------------------- Quota Tracker

\* Date.now() > this.state.reset
ResetPassedStrictIsWrong(s) == s.reset <= 0
ResetPassed(s) == s.reset < 0

\* canMakeRequest(): the state it leaves behind ...
canMakeRequestState(s) ==
  IF ResetPassed(s)
  THEN [s EXCEPT !.remaining = s.limit, !.used = 0, !.reset = Window]
  ELSE s

\* ... and the value it returns.
canMakeRequest(s) == canMakeRequestState(s).remaining > 0

updateFromHeadersClearsAbsentIsWrong(s, h) ==
  [remaining |-> IF h.remaining # None THEN h.remaining ELSE s.limit,
   reset     |-> IF h.reset # None THEN h.reset ELSE s.reset,
   limit     |-> IF h.limit # None THEN h.limit ELSE s.limit,
   used      |-> IF h.used # None THEN h.used ELSE 0]
\* updateFromHeaders(headers): a header that is absent (None) is skipped.
updateFromHeaders(s, h) ==
  [remaining |-> IF h.remaining # None THEN h.remaining ELSE s.remaining,
   reset     |-> IF h.reset # None THEN h.reset ELSE s.reset,
   limit     |-> IF h.limit # None THEN h.limit ELSE s.limit,
   used      |-> IF h.used # None THEN h.used ELSE s.used]

\* this.state.remaining--; this.state.used++ after a successful requestFn
recordUsage(s) == [s EXCEPT !.remaining = s.remaining - 1, !.used = s.used + 1]

\* getStatus().timeUntilReset
timeUntilResetRawIsWrong(s) == s.reset
timeUntilReset(s) == Max(0, s.reset)

\* isNearLimit(): (limit - remaining) / limit > 0.8.  The quotient of two
\* integers below 2^53 is rounded to the double nearest to it, which is the
\* double 0.8 stands for exactly when the quotient is 4/5, so the comparison
\* of doubles is that of the fractions.
isNearLimit(s) == 5 * (s.limit - s.remaining) > 4 * s.limit

\* getRecommendedCacheTTL(), in minutes.
getRecommendedCacheTTLFlatIsWrong(s) == IF s.remaining < 100 THEN 20 ELSE 15
getRecommendedCacheTTL(s) ==
  IF isNearLimit(s) THEN 30
  ELSE IF s.remaining < 100 THEN 20
  ELSE 15

NoHeaders == [remaining |-> None, reset |-> None, limit |-> None, used |-> None]

\* Quota metadata of a response of the upstream: all four headers, with
\* remaining <= limit, the reset time given relative to the current instant.
FullHeaders ==
  {h \in [remaining : 0..MaxLimit, reset : (-1)..MaxReset,
          limit : 1..MaxLimit, used : 0..MaxLimit] :
     h.remaining <= h.limit /\ h.used = h.limit - h.remaining}

\* What a fetch can come to: a response with status 2xx ("ok"), a response
\* with an error status ("http_error"), or no response at all ("network").
Responses ==
  [kind : {"ok", "http_error"}, headers : FullHeaders \cup {NoHeaders}]
  \cup [kind : {"network"}, headers : {NoHeaders}]

\* ------------------------------------------------------ Request Queue

NoWorker == [pc |-> "none", task |-> 0, timer |-> 0]
WorkerIds == 1..MaxTasks
TaskIds == 1..Len(tasks)

\* requestQueue.shift(): the task taken ...
ShiftLastIsWrong(q) == q[Len(q)]
ShiftHead(q) == Head(q)
\* ... and the queue left.
ShiftRest(q) == SelectSeq(q, LAMBDA t : t # ShiftHead(q))

SetStatus(ts, t, st) == [ts EXCEPT ![t].status = st]

\* this.isProcessingQueue = false, once the while loop has ended
LoopEndFlagStuck == TRUE
LoopEndFlag == FALSE

\* One turn of the while loop of processQueue, by worker w, up to its next
\* suspension: the loop test, shift(), request() up to `await requestFn()`
\* or up to the setTimeout of waitIfNecessary; or the end of the loop.
\* `q` and `ts` are the queue and the tasks the turn starts from.
LoopTurn(w, q, ts) ==
  IF q = <<>>
  THEN /\ isProcessingQueue' = LoopEndFlag
       /\ workers' = [workers EXCEPT ![w] = NoWorker]
       /\ requestQueue' = q
       /\ tasks' = ts
       /\ admit' = "none"
       /\ UNCHANGED <<state, startOrder, zeroT>>
  ELSE LET t == ShiftHead(q)
           s1 == canMakeRequestState(state)
           ok == canMakeRequest(state)
           waitTime == Max(0, s1.reset)
           held == ~ok /\ waitTime > 0
       IN /\ isProcessingQueue' = TRUE
          /\ requestQueue' = ShiftRest(q)
          /\ state' = s1
          /\ admit' = IF ok THEN "yes" ELSE "no"
          /\ zeroT' = IF s1 # state /\ zeroT # None THEN Healed ELSE zeroT
          /\ IF held
             THEN /\ workers' = [workers EXCEPT
                       ![w] = [pc |-> "wait", task |-> t, timer |-> waitTime]]
                  /\ tasks' = SetStatus(ts, t, "held")
                  /\ UNCHANGED startOrder
             ELSE /\ workers' = [workers EXCEPT
                       ![w] = [pc |-> "fetch", task |-> t, timer |-> 0]]
                  /\ tasks' = SetStatus(ts, t, "running")
                  /\ startOrder' = Append(startOrder, t)

\* The activation a call of processQueue that passes the guard becomes.
FreeWorker ==
  CHOOSE i \in WorkerIds :
    /\ workers[i].pc = "none"
    /\ \A j \in WorkerIds : workers[j].pc = "none" => i <= j

\* processQueue() as called at the end of executeRequest: returns at once
\* when a worker is active or nothing is queued, otherwise becomes the worker.
processQueueNoGuardIsWrong(q, ts) ==
  IF q = <<>>
  THEN /\ requestQueue' = q
       /\ tasks' = ts
       /\ admit' = "none"
       /\ UNCHANGED <<state, isProcessingQueue, workers, startOrder, zeroT>>
  ELSE LoopTurn(FreeWorker, q, ts)
processQueueNeverStartsIsWrong(q, ts) ==
  /\ requestQueue' = q
  /\ tasks' = ts
  /\ admit' = "none"
  /\ UNCHANGED <<state, isProcessingQueue, workers, startOrder, zeroT>>
processQueue(q, ts) ==
  IF isProcessingQueue \/ q = <<>>
  THEN /\ requestQueue' = q
       /\ tasks' = ts
       /\ admit' = "none"
       /\ UNCHANGED <<state, isProcessingQueue, workers, startOrder, zeroT>>
  ELSE LoopTurn(FreeWorker, q, ts)

\* executeRequest(requestFn), called for each task of `batch` in turn within
\* one synchronous run: every task is pushed, and the first processQueue()
\* that finds no worker active becomes the worker (the later ones return).
Submit(q, ts, batch) ==
  processQueue(q \o [i \in 1..Len(batch) |-> Len(ts) + i], ts \o batch)

RawTask == [status |-> "queued", get |-> 0, ep |-> "raw"]

executeRequest ==
  /\ Len(tasks) < MaxTasks
  /\ Submit(requestQueue, tasks, <<RawTask>>)
  /\ ev' = "submit"

\* The setTimeout of waitIfNecessary fires: the held task's requestFn is
\* invoked, with no second look at the quota.
WaitOverStep(w) ==
  /\ workers[w].pc = "wait"
  /\ workers[w].timer = 0
  /\ workers' = [workers EXCEPT ![w].pc = "fetch"]
  /\ tasks' = SetStatus(tasks, workers[w].task, "running")
  /\ startOrder' = Append(startOrder, workers[w].task)
  /\ admit' = "none"
  /\ UNCHANGED <<state, requestQueue, isProcessingQueue, zeroT>>

WaitOver(w) ==
  /\ WaitOverStep(w)
  /\ ev' = "waitOver"

\* The state after requestFn of makeRequest has settled with response r:
\* updateFromHeaders on every response, then the usage count on success.
AfterResponseOkOnlyIsWrong(s, r) ==
  IF r.kind = "ok" THEN recordUsage(updateFromHeaders(s, r.headers)) ELSE s
AfterResponseCountsFailuresIsWrong(s, r) ==
  recordUsage(IF r.kind = "network" THEN s ELSE updateFromHeaders(s, r.headers))
AfterResponse(s, r) ==
  LET s1 == IF r.kind = "network" THEN s ELSE updateFromHeaders(s, r.headers)
  IN IF r.kind = "ok" THEN recordUsage(s1) ELSE s1

\* What the task's caller is handed: the value (resolve) or the error (reject).
Outcome(r) == IF r.kind = "ok" THEN "value" ELSE "error"

\* requestFn settles with response r: resolve or reject, then the worker
\* sleeps Delay.  `st` is what is kept of the task from then on.
SettleTaskStopsOnErrorIsWrong(w, r, st) ==
  /\ workers[w].pc = "fetch"
  /\ state' = AfterResponse(state, r)
  /\ tasks' = SetStatus(tasks, workers[w].task, st)
  /\ workers' = IF r.kind = "ok"
                THEN [workers EXCEPT ![w].pc = "delay", ![w].timer = Delay]
                ELSE [workers EXCEPT ![w] = NoWorker]
  /\ zeroT' = IF r.headers = NoHeaders THEN zeroT
              ELSE IF r.headers.remaining = 0 THEN r.headers.reset ELSE None
  /\ admit' = "none"
  /\ UNCHANGED <<requestQueue, isProcessingQueue, startOrder>>
SettleTaskRetriesIsWrong(w, r, st) ==
  /\ workers[w].pc = "fetch"
  /\ state' = AfterResponse(state, r)
  /\ tasks' = SetStatus(tasks, workers[w].task,
                        IF r.kind = "ok" THEN st ELSE "queued")
  /\ requestQueue' = IF r.kind = "ok" THEN requestQueue
                     ELSE <<workers[w].task>> \o requestQueue
  /\ workers' = [workers EXCEPT ![w].pc = "delay", ![w].timer = Delay]
  /\ zeroT' = IF r.headers = NoHeaders THEN zeroT
              ELSE IF r.headers.remaining = 0 THEN r.headers.reset ELSE None
  /\ admit' = "none"
  /\ UNCHANGED <<isProcessingQueue, startOrder>>
SettleTask(w, r, st) ==
  /\ workers[w].pc = "fetch"
  /\ state' = AfterResponse(state, r)
  /\ tasks' = SetStatus(tasks, workers[w].task, st)
  /\ workers' = [workers EXCEPT ![w].pc = "delay", ![w].timer = Delay]
  /\ zeroT' = IF r.headers = NoHeaders THEN zeroT
              ELSE IF r.headers.remaining = 0 THEN r.headers.reset ELSE None
  /\ admit' = "none"
  /\ UNCHANGED <<requestQueue, isProcessingQueue, startOrder>>

Settle(w, r) ==
  /\ SettleTask(w, r, Outcome(r))
  /\ ev' = "settle"

\* The 100 ms setTimeout fires: the next turn of the loop.
DelayOverStepEarlyIsWrong(w) ==
  /\ workers[w].pc = "delay"
  /\ LoopTurn(w, requestQueue, tasks)
DelayOverStep(w) ==
  /\ workers[w].pc = "delay"
  /\ workers[w].timer = 0
  /\ LoopTurn(w, requestQueue, tasks)

DelayOver(w) ==
  /\ DelayOverStep(w)
  /\ ev' = "delayOver"

\* One unit of time passes.
TickState(s) == [s EXCEPT !.reset = Max(-1, s.reset - 1)]
TickWorker(wk) == [wk EXCEPT !.timer = Max(0, wk.timer - 1)]
TickQueue ==
  /\ state' = TickState(state)
  /\ workers' = [w \in WorkerIds |-> TickWorker(workers[w])]
  /\ zeroT' = IF zeroT \in {None, Healed} THEN zeroT ELSE Max(-1, zeroT - 1)
  /\ admit' = "none"
  /\ UNCHANGED <<requestQueue, isProcessingQueue, tasks, startOrder>>

Tick ==
  /\ TickQueue
  /\ ev' = "tick"

\* new RateLimiter(): remaining = limit = 60 or 5000, reset one window ahead.
InitState(l) == [remaining |-> l, reset |-> Window, limit |-> l, used |-> 0]

InitQueue ==
  /\ state = InitState(MaxLimit)
  /\ requestQueue = <<>>
  /\ isProcessingQueue = FALSE
  /\ workers = [w \in WorkerIds |-> NoWorker]
  /\ tasks = <<>>
  /\ startOrder = <<>>
  /\ zeroT = None
  /\ admit = "none"

\* -------------------------------------------------------- Cache Store

Repos == 1..MaxRepos
\* CacheService.getRepoKey / getMetricsKey / getHealthKey
getRepoKey(r) == <<"repo", r>>
getMetricsKey(r) == <<"metrics", r>>
getHealthKey(r) == <<"health", r>>
Keys == {getRepoKey(r) : r \in Repos} \cup {getMetricsKey(r) : r \in Repos}
        \cup {getHealthKey(r) : r \in Repos}

Values == {1, 2}
NoKey == <<"none", 0>>
Ttls == 1..MaxTtl
MaxAge == Max(MaxTtl, defaultTtl) + 1

IndexOf(c, k) == CHOOSE i \in 1..Len(c) : c[i].key = k
Has(c, k) == \E i \in 1..Len(c) : c[i].key = k
KeysOf(c) == {c[i].key : i \in 1..Len(c)}
\* Map.delete(key)
MapDelete(c, k) == SelectSeq(c, LAMBDA e : e.key # k)
\* Map.set(key, item): a key already present keeps its place in the order
MapSetMovesToEndIsWrong(c, k, item) == Append(MapDelete(c, k), item)
MapSet(c, k, item) ==
  IF Has(c, k) THEN [c EXCEPT ![IndexOf(c, k)] = item] ELSE Append(c, item)

\* Date.now() - item.timestamp > item.ttl
Expired(e) == e.age > e.ttl

\* this.cache.keys().next().value
FirstKeyNewestIsWrong(c) == c[Len(c)].key
FirstKey(c) == c[1].key

\* set(key, value, ttl): at maxSize the first key of the Map goes (every key
\* the program makes is a non-empty string, so `if (firstKey)` holds), then
\* the item is stored with timestamp now and ttl `ttl || defaultTtl`.
\* The same for a service configured with maxSize n.
cacheSetAt(c, k, v, ttl, n) ==
  LET c1 == IF Len(c) >= n /\ Len(c) > 0
            THEN MapDelete(c, FirstKey(c)) ELSE c
      item == [key |-> k, data |-> v, age |-> 0,
               ttl |-> IF ttl = None \/ ttl = 0 THEN defaultTtl ELSE ttl]
  IN MapSet(c1, k, item)

cacheSet(c, k, v, ttl) == cacheSetAt(c, k, v, ttl, maxSize)

\* get(key): the value returned (None: null) ...
cacheGet(c, k) ==
  IF ~Has(c, k) THEN None
  ELSE IF Expired(c[IndexOf(c, k)]) THEN None
  ELSE c[IndexOf(c, k)].data
\* ... and the Map it leaves: an expired item is deleted.
cacheAfterGet(c, k) ==
  IF Has(c, k) /\ Expired(c[IndexOf(c, k)]) THEN MapDelete(c, k) ELSE c

\* cleanup(): every expired item is deleted.
cacheCleanup(c) == SelectSeq(c, LAMBDA e : ~Expired(e))

TickCache(c) ==
  [i \in 1..Len(c) |-> [c[i] EXCEPT !.age = Min(MaxAge, c[i].age + 1)]]

\* The history of the probed key after a step from Map c to Map c2 in which
\* v was set under it with ttl (`isSet`) or it was deleted (`del`).
ProbeAfter(c, c2, isSet, v, ttl, del) ==
  IF isSet
  THEN [key |-> probe.key, st |-> "set", v |-> v, ttl |-> ttl, since |-> 0]
  ELSE IF probe.st = "set" /\ (del \/ (probe.key \in KeysOf(c)
                                        /\ probe.key \notin KeysOf(c2)))
  THEN [key |-> probe.key, st |-> "gone"]
  ELSE probe

Set(k, v, ttl) ==
  /\ cache' = cacheSet(cache, k, v, ttl)
  /\ probe' = ProbeAfter(cache, cache', k = probe.key, v,
                          IF ttl = None THEN defaultTtl ELSE ttl, FALSE)
  /\ ev' = IF Len(cache) >= maxSize THEN "setFull" ELSE "set"

Get(k) ==
  /\ cache' = cacheAfterGet(cache, k)
  /\ probe' = probe
  /\ ev' = "get"

Delete(k) ==
  /\ cache' = MapDelete(cache, k)
  /\ probe' = ProbeAfter(cache, cache, FALSE, None, None, k = probe.key)
  /\ ev' = "delete"

\* The sweep setInterval runs every 5 minutes.
Cleanup ==
  /\ cache' = cacheCleanup(cache)
  /\ probe' = probe
  /\ ev' = "cleanup"

TickProbe ==
  IF probe.st = "set"
  THEN [probe EXCEPT !.since = Min(MaxAge, probe.since + 1)] ELSE probe

CacheTick ==
  /\ cache' = TickCache(cache)
  /\ probe' = TickProbe
  /\ ev' = "tick"

InitCache == cache = <<>>

InitOrch ==
  /\ gets = <<>>
  /\ stale = [r \in Repos |-> {}]

\* ------------------------------------- the cache on its own: SpecCache

\* The keys the cache is driven with here (it treats all keys alike), and
\* the one whose history is kept.
CacheKeys == {getRepoKey(1), getMetricsKey(1), getHealthKey(1)}
ProbeKey == getMetricsKey(1)

CacheInit ==
  /\ InitQueue
  /\ InitCache
  /\ InitOrch
  /\ probe = [key |-> ProbeKey, st |-> "never"]
  /\ ev = "init"

CacheNext ==
  \/ \E k \in CacheKeys, v \in Values, ttl \in Ttls \cup {None} :
       Set(k, v, ttl) /\ UNCHANGED <<qvars, ovars>>
  \/ \E k \in CacheKeys : Get(k) /\ UNCHANGED <<qvars, ovars>>
  \/ \E k \in CacheKeys : Delete(k) /\ UNCHANGED <<qvars, ovars>>
  \/ Cleanup /\ UNCHANGED <<qvars, ovars>>
  \/ CacheTick /\ UNCHANGED <<qvars, ovars>>

SpecCache == CacheInit /\ [][CacheNext]_vars

\* ------------------------------------- the rate limiter on its own: Spec

Init ==
  /\ InitQueue
  /\ InitCache
  /\ InitOrch
  /\ probe = [key |-> NoKey, st |-> "never"]
  /\ ev = "init"

Next ==
  \/ executeRequest /\ UNCHANGED <<cvars, ovars>>
  \/ \E w \in WorkerIds : WaitOver(w) /\ UNCHANGED <<cvars, ovars>>
  \/ \E w \in WorkerIds, r \in Responses : Settle(w, r) /\ UNCHANGED <<cvars, ovars>>
  \/ \E w \in WorkerIds : DelayOver(w) /\ UNCHANGED <<cvars, ovars>>
  \/ Tick /\ UNCHANGED <<cvars, ovars>>

Spec == Init /\ [][Next]_vars

\* The scheduling the claims about progress assume: time passes, timers
\* fire, and every upstream call returns.
Fairness ==
  /\ WF_vars(Tick /\ UNCHANGED <<cvars, ovars>>)
  /\ WF_vars(\E w \in WorkerIds : WaitOver(w) /\ UNCHANGED <<cvars, ovars>>)
  /\ WF_vars(\E w \in WorkerIds, r \in Responses :
               Settle(w, r) /\ UNCHANGED <<cvars, ovars>>)
  /\ WF_vars(\E w \in WorkerIds : DelayOver(w) /\ UNCHANGED <<cvars, ovars>>)

FairSpec == Spec /\ Fairness

\* ------------------------------------------- Acquisition Orchestrator

\* The upstream calls of one getProjectMetrics, in the order makeRequest is
\* called: getCommitActivity, getContributors, getIssueStats (2),
\* getPullRequestStats (2), getDocumentationCheck (5 files).
MetricsEndpointsWithoutDocsIsWrong ==
  <<"stats/commit_activity", "contributors",
    "issues?state=open", "issues?state=closed",
    "pulls?state=open", "pulls?state=closed">>
MetricsEndpoints ==
  <<"stats/commit_activity", "contributors",
    "issues?state=open", "issues?state=closed",
    "pulls?state=open", "pulls?state=closed",
    "contents/README.md", "contents/LICENSE", "contents/CONTRIBUTING.md",
    "contents/CHANGELOG.md", "contents/CODE_OF_CONDUCT.md">>
\* The upstream call of one getProject.
ProjectEndpoints == <<"repos">>

Kinds == {"project", "metrics", "health"}
KeyOf(kind, r) ==
  IF kind = "project" THEN getRepoKey(r)
  ELSE IF kind = "metrics" THEN getMetricsKey(r) ELSE getHealthKey(r)

TasksFor(g, eps) ==
  [i \in 1..Len(eps) |-> [status |-> "queued", get |-> g, ep |-> eps[i]]]

\* `if (cached)`: every cached value is an object
CachedNeverIsWrong(v) == FALSE
Cached(v) == v # None

\* The three cache.delete calls of the refresh route.
RefreshDeleteHealthOnlyIsWrong(c, r) == MapDelete(c, getHealthKey(r))
RefreshDeleteClearIsWrong(c, r) == <<>>
RefreshDelete(c, r) ==
  MapDelete(MapDelete(MapDelete(c, getRepoKey(r)), getMetricsKey(r)),
            getHealthKey(r))

\* The values the Map holds under the keys of repository r.
HeldFor(c, r) ==
  {c[i].data : i \in {j \in 1..Len(c) :
      c[j].key \in {getRepoKey(r), getMetricsKey(r), getHealthKey(r)}}}

NewGet(kind, r, refresh, left, status, result, st) ==
  [kind |-> kind, repo |-> r, refresh |-> refresh, left |-> left,
   failed |-> FALSE, status |-> status, result |-> result, stale |-> st]

\* getProject / getProjectMetrics / getProjectHealth called on Map c, up to
\* its first suspension.  A value is the number of the call whose upstream
\* calls it was built from; the health computed from metrics m carries m.
\*   hit: the cached value is returned, nothing is submitted;
\*   health miss, metrics hit: health is computed, stored and returned;
\*   miss: the upstream calls are submitted and the call is left pending.
GetOn(c, kind, r, refresh, st) ==
  LET g == Len(gets) + 1
      key == KeyOf(kind, r)
      v == cacheGet(c, key)
      c1 == cacheAfterGet(c, key)
      mkey == getMetricsKey(r)
      m == cacheGet(c1, mkey)
      c2 == cacheAfterGet(c1, mkey)
  IN IF Cached(v)
     THEN /\ gets' = Append(gets, NewGet(kind, r, refresh, 0, "value", v, st))
          /\ cache' = c1
          /\ UNCHANGED qvars
     ELSE IF kind = "health" /\ Cached(m)
     THEN /\ gets' = Append(gets, NewGet(kind, r, refresh, 0, "value", m, st))
          /\ cache' = cacheSet(c2, key, m, None)
          /\ UNCHANGED qvars
     ELSE LET eps == IF kind = "project" THEN ProjectEndpoints
                     ELSE MetricsEndpoints
          IN /\ gets' = Append(gets, NewGet(kind, r, refresh, Len(eps),
                                            "pending", None, st))
             /\ cache' = IF kind = "health" THEN c2 ELSE c1
             /\ Submit(requestQueue, tasks, TasksFor(g, eps))

OrchGet(kind, r) ==
  /\ Len(gets) < MaxGets
  /\ GetOn(cache, kind, r, FALSE, stale[r])
  /\ Len(tasks') <= MaxOrchTasks
  /\ UNCHANGED <<stale, probe, ev>>

\* POST /api/health/:owner/:repo/refresh
OrchRefresh(r) ==
  /\ Len(gets) < MaxGets
  /\ stale' = [stale EXCEPT ![r] = @ \cup HeldFor(cache, r)]
  /\ GetOn(RefreshDelete(cache, r), "health", r, TRUE, stale'[r])
  /\ Len(tasks') <= MaxOrchTasks
  /\ UNCHANGED <<probe, ev>>

\* The Map after call g (of kind `kind`, for repository r) has all its
\* upstream results: getProject stores the project unless its call failed,
\* getProjectMetrics stores the metrics (failed sub-fetches are defaulted),
\* getProjectHealth then stores the health computed from them.
StoreResultForRecommendedTtlIsWrong(c, g, kind, r, failed) ==
  LET ttl == getRecommendedCacheTTL(state')
  IN IF kind = "project"
     THEN IF failed THEN c ELSE cacheSet(c, getRepoKey(r), g, ttl)
     ELSE IF kind = "metrics" THEN cacheSet(c, getMetricsKey(r), g, ttl)
     ELSE cacheSet(cacheSet(c, getMetricsKey(r), g, ttl), getHealthKey(r), g, ttl)
StoreResultOfFailureIsWrong(c, g, kind, r, failed) ==
  IF kind = "project" THEN cacheSet(c, getRepoKey(r), g, None)
  ELSE IF kind = "metrics" THEN cacheSet(c, getMetricsKey(r), g, None)
  ELSE cacheSet(cacheSet(c, getMetricsKey(r), g, None), getHealthKey(r), g, None)
StoreResult(c, g, kind, r, failed) ==
  IF kind = "project"
  THEN IF failed THEN c ELSE cacheSet(c, getRepoKey(r), g, None)
  ELSE IF kind = "metrics" THEN cacheSet(c, getMetricsKey(r), g, None)
  ELSE cacheSet(cacheSet(c, getMetricsKey(r), g, None), getHealthKey(r), g, None)

\* An upstream call of an orchestrator call settles; with the last one the
\* call resumes, stores and returns.
OrchResume(w, r) ==
  LET g == tasks[workers[w].task].get
      left == gets[g].left - 1
      failed == gets[g].failed \/ r.kind # "ok"
      erred == gets[g].kind = "project" /\ failed
  IN /\ gets' = [gets EXCEPT
           ![g].left = left,
           ![g].failed = failed,
           ![g].status = IF left > 0 THEN "pending"
                         ELSE IF erred THEN "error" ELSE "value",
           ![g].result = IF left > 0 \/ erred THEN None ELSE g]
     /\ cache' = IF left > 0 THEN cache
                 ELSE StoreResult(cache, g, gets[g].kind, gets[g].repo, failed)

OrchSettleStep(w, r) ==
  /\ SettleTask(w, r, "settled")
  /\ OrchResume(w, r)
  /\ UNCHANGED <<stale, ev>>

OrchSettle(w, r) ==
  /\ OrchSettleStep(w, r)
  /\ UNCHANGED probe

\* The sweep setInterval runs every 5 minutes.
OrchCleanup ==
  /\ cache' = cacheCleanup(cache)
  /\ UNCHANGED <<qvars, ovars, probe, ev>>

OrchTick ==
  /\ TickQueue
  /\ cache' = TickCache(cache)
  /\ UNCHANGED <<ovars, probe, ev>>

\* Responses as far as the orchestration goes: a value or a failure, the
\* quota being counted down by the rate limiter alone.
OrchResponses == {r \in Responses : r.headers = NoHeaders}

\* -------------------- cache, queue and orchestrator together: SpecOrch

OrchInit ==
  /\ InitQueue
  /\ InitCache
  /\ InitOrch
  /\ probe = [key |-> NoKey, st |-> "never"]
  /\ ev = "init"

OrchNext ==
  \/ \E kind \in Kinds, r \in Repos : OrchGet(kind, r)
  \/ \E r \in Repos : OrchRefresh(r)
  \/ \E w \in WorkerIds, r \in OrchResponses : OrchSettle(w, r)
  \/ \E w \in WorkerIds : WaitOverStep(w) /\ UNCHANGED <<cvars, ovars, ev>>
  \/ \E w \in WorkerIds : DelayOverStep(w) /\ UNCHANGED <<cvars, ovars, ev>>
  \/ OrchCleanup
  \/ OrchTick

SpecOrch == OrchInit /\ [][OrchNext]_vars

\* ------------------------------------------------------------ claims

Done(t) == t <= Len(tasks) /\ tasks[t].status \in {"value", "error"}
Active(t) == t <= Len(tasks) /\ tasks[t].status \in {"held", "running"}

\* C1: tasks are started in exactly the order they were submitted (task ids
\* are submission numbers), a held or running task is the only one out of
\* the queue, and every task started before it has settled; nothing queued
\* behind a held task has been started.
C1_FifoOneAtATime ==
  /\ startOrder = [i \in 1..Len(startOrder) |-> i]
  /\ Cardinality({t \in TaskIds : Active(t)}) <= 1
  /\ \A t \in TaskIds : Active(t) => \A u \in 1..(t - 1) : Done(u)
  /\ \A t \in TaskIds : tasks[t].status = "held" =>
        \A u \in TaskIds : u > t => tasks[u].status = "queued"

\* C1 witness: a task is held on the quota, an earlier task has run and a
\* later one waits behind it.
C1_Witness ==
  \E t \in TaskIds :
    /\ tasks[t].status = "held"
    /\ Len(startOrder) >= 1
    /\ requestQueue # <<>>

\* C2: whenever a task's requestFn is invoked, canMakeRequest() evaluated at
\* that instant is true.
C2_StartOnlyWhenAdmitted ==
  [][Len(startOrder') > Len(startOrder) => canMakeRequest(state')]_vars

\* C3: the quota state always has remaining >= 0, used >= 0, limit > 0 and
\* remaining <= limit.
C3_QuotaStateInRange ==
  /\ state.remaining >= 0
  /\ state.used >= 0
  /\ state.limit > 0
  /\ state.remaining <= state.limit

\* C4: every submitted task eventually settles, with a value or an error.
C4_EverySubmittedTaskSettles ==
  \A t \in 1..MaxTasks : (t <= Len(tasks)) ~> Done(t)

\* C4 witness: a task submitted while another was held on the quota has
\* settled, and so has the held one.
C4_Witness ==
  /\ Len(tasks) >= 3
  /\ \A t \in TaskIds : Done(t)
  /\ zeroT = Healed

\* C9: after a response announced remaining = 0 and reset time T (and no
\* later response carried quota metadata), canMakeRequest() returns false as
\* long as now <= T, and once now > T it returns true and leaves
\* remaining = limit and used = 0.
C9_ZeroUntilResetPassed ==
  [][(admit' # "none" /\ zeroT \notin {None, Healed}) =>
       IF zeroT >= 0
       THEN admit' = "no"
       ELSE /\ admit' = "yes"
            /\ state'.remaining = state'.limit
            /\ state'.used = 0]_vars

\* C9 witness: canMakeRequest has just returned true after the time T that
\* came with remaining = 0 had passed.
C9_Witness == zeroT = Healed /\ admit = "yes"

\* C10: canMakeRequest() called at now >= reset (now = reset included) first
\* sets remaining = limit, used = 0, reset = now + Window and returns true;
\* called at now < reset it changes nothing and returns remaining > 0.
C10_ResetAtOrAfterResetTime ==
  [][admit' # "none" =>
       IF state.reset <= 0
       THEN /\ state' = [state EXCEPT !.remaining = state.limit,
                                      !.used = 0, !.reset = Window]
            /\ admit' = "yes"
       ELSE /\ state' = state
            /\ (admit' = "yes") = (state.remaining > 0)]_vars

\* C6: for the probed key k: after set(k, v, ttl) at time s with no later
\* set, delete or eviction of k, get(k) at time t returns v when t - s < ttl
\* and null when t >= s + ttl; get of a key never set returns null.
C6_TtlBoundary ==
  /\ probe.st = "never" => cacheGet(cache, probe.key) = None
  /\ (probe.st = "set" /\ probe.since < probe.ttl) =>
        cacheGet(cache, probe.key) = probe.v
  /\ (probe.st = "set" /\ probe.since >= probe.ttl) =>
        cacheGet(cache, probe.key) = None

\* C7: the Map never holds more than maxSize entries, and a set at maxSize
\* entries removes exactly the first key of the Map's (insertion) order
\* before it stores: every other key stays, in the order it had.
C7_CapacityFifoEviction ==
  [][/\ Len(cache') <= maxSize
     /\ (ev' \in {"set", "setFull"} /\ Len(cache) = maxSize) =>
          \E k \in CacheKeys :
            /\ Has(cache', k)
            /\ [i \in 1..Len(MapDelete(cache', k)) |-> MapDelete(cache', k)[i].key]
               = [i \in 1..Len(MapDelete(Tail(cache), k)) |->
                    MapDelete(Tail(cache), k)[i].key]
            /\ \A j \in 1..Len(cache') :
                 cache'[j].key # k => cache'[j] \in {cache[i] : i \in 1..Len(cache)}]_vars

\* C7 witness: a set that found the Map full has just evicted the oldest
\* key although a younger entry had already expired.
C7_Witness ==
  /\ ev = "setFull"
  /\ Len(cache) = maxSize
  /\ \E i \in 1..Len(cache) : Expired(cache[i])

\* The Map holds under key k an entry younger than its ttl.
Live(c, k) == \E i \in 1..Len(c) : c[i].key = k /\ c[i].age < c[i].ttl
LiveData(c, k) == c[CHOOSE i \in 1..Len(c) : c[i].key = k].data
LastGet == gets[Len(gets)]

\* C5: a getProject / getProjectMetrics / getProjectHealth call whose key
\* has a live cache entry returns that entry's value in the same step,
\* submits no task, starts no upstream call and leaves the quota state
\* (and the whole rate limiter) as it was, whatever the queue is doing.
C5_HitBypassesQueue ==
  [][(/\ Len(gets') = Len(gets) + 1
      /\ ~LastGet'.refresh
      /\ Live(cache, KeyOf(LastGet'.kind, LastGet'.repo))) =>
       /\ LastGet'.status = "value"
       /\ LastGet'.result = LiveData(cache, KeyOf(LastGet'.kind, LastGet'.repo))
       /\ UNCHANGED qvars]_vars

\* C5 witness: getProject has been served from the cache (its value was
\* fetched by an earlier call) and a later call's task is held on the quota
\* with more tasks queued behind it.
C5_Witness ==
  /\ \E g \in 1..Len(gets) :
       /\ gets[g].kind = "project"
       /\ gets[g].status = "value"
       /\ gets[g].result # g
       /\ ~gets[g].refresh
  /\ \E t \in 1..Len(tasks) : tasks[t].status = "held"
  /\ requestQueue # <<>>

\* C8: a refresh never returns a value the cache held for the repository
\* when it was called: its result is built from its own upstream calls; and
\* no get called after a refresh returns a value the cache held for the
\* repository when that refresh was called.
C8_RefreshIsFresh ==
  \A g \in 1..Len(gets) :
    gets[g].status = "value" =>
      /\ gets[g].result \notin gets[g].stale
      /\ gets[g].refresh => gets[g].result = g

\* C8 witness: a refresh called over a cached value has returned, and a get
\* for the same repository called after it has returned too.
C8_Witness ==
  \E g \in 1..Len(gets) :
    /\ gets[g].refresh
    /\ gets[g].status = "value"
    /\ gets[g].stale # {}
    /\ \E h \in (g + 1)..Len(gets) :
         /\ gets[h].repo = gets[g].repo
         /\ ~gets[h].refresh
         /\ gets[h].status = "value"

\* ------------------ the rate limiter with one request left: SpecOne

\* The limiter with remaining = 1 and the reset time ahead, nothing queued:
\* as it stands after limit - 1 successful calls within the window.
OneInit ==
  /\ state \in {[remaining |-> 1, reset |-> r, limit |-> l, used |-> l - 1] :
                  r \in 1..Window, l \in 1..MaxLimit}
  /\ requestQueue = <<>>
  /\ isProcessingQueue = FALSE
  /\ workers = [w \in WorkerIds |-> NoWorker]
  /\ tasks = <<>>
  /\ startOrder = <<>>
  /\ zeroT = None
  /\ admit = "none"
  /\ InitCache
  /\ InitOrch
  /\ probe = [key |-> NoKey, st |-> "never"]
  /\ ev = "init"

\* Time from the first submission on (the time before it is in OneInit).
OneTick ==
  /\ tasks # <<>>
  /\ Tick

\* The upstream answers without x-ratelimit-* headers, or not at all.
OneNext ==
  \/ executeRequest /\ UNCHANGED <<cvars, ovars>>
  \/ \E w \in WorkerIds : WaitOver(w) /\ UNCHANGED <<cvars, ovars>>
  \/ \E w \in WorkerIds, r \in OrchResponses : Settle(w, r) /\ UNCHANGED <<cvars, ovars>>
  \/ \E w \in WorkerIds : DelayOver(w) /\ UNCHANGED <<cvars, ovars>>
  \/ OneTick /\ UNCHANGED <<cvars, ovars>>

SpecOne == OneInit /\ [][OneNext]_vars

\* C11: starting from remaining = 1 with the reset time ahead and no quota
\* metadata in any response, the first task submitted is started at once,
\* and the second is not started before the reset time (state.reset, still
\* the original reset time as long as the second task has not started, is
\* reached: state.reset <= 0).
C11_SecondHeldUntilReset ==
  [][/\ Len(tasks') >= 1 => Len(startOrder') >= 1
     /\ (Len(startOrder) = 1 /\ Len(startOrder') = 2) => state.reset <= 0]_vars

\* C12: when a task completes whose response carried quota metadata m, the
\* state getStatus() reports from then on (until a later response or the
\* reset) is m: remaining, reset, limit and used as the upstream gave them.
C12_UpstreamAuthoritative ==
  [][\A w \in WorkerIds, r \in Responses :
       (r.headers # NoHeaders /\ Settle(w, r)) => state' = r.headers]_vars

\* ------------------------------------- the Fetcher (makeRequest): SpecFetch

\* response.status of a response that is not ok, one of each branch.
HttpStatuses == {401, 403, 404, 500}

\* What fetch can come to, with the status the branches of makeRequest test.
FetchResponses ==
  [kind : {"ok"}, status : {200}, headers : FullHeaders \cup {NoHeaders}]
  \cup [kind : {"http_error"}, status : HttpStatuses,
        headers : FullHeaders \cup {NoHeaders}]
  \cup [kind : {"network"}, status : {0}, headers : {NoHeaders}]

\* new Date(parseInt(rateLimitReset) * 1000).toISOString(), or 'unknown'
ResetTimeText(reset) == IF reset = None THEN "unknown" ELSE ToString(reset)

\* The message of the Error makeRequest throws for a response that is not ok
\* (401; 403 with x-ratelimit-remaining === '0'; other 403; anything else),
\* or when fetch itself rejects.
ErrorMessage(r) ==
  IF r.kind = "network" THEN "Network error while calling GitHub API"
  ELSE IF r.status = 401 THEN "GitHub API authentication failed"
  ELSE IF r.status = 403
  THEN IF r.headers.remaining = 0
       THEN "GitHub API rate limit exceeded. Reset time: "
              \o ResetTimeText(r.headers.reset)
       ELSE "GitHub API access forbidden"
  ELSE "GitHub API error: " \o ToString(r.status)

\* What the caller of makeRequest is handed.
Delivered(r) == IF r.kind = "ok" THEN "value" ELSE ErrorMessage(r)

\* The upstream call of a makeRequest settles with response r.
FetchSettle(w, r) ==
  /\ SettleTask(w, r, Delivered(r))
  /\ ev' = "settle"

\* makeRequest(endpoint): the call goes through rateLimiter.executeRequest.
makeRequest ==
  /\ Len(tasks) < MaxCalls
  /\ Submit(requestQueue, tasks, <<RawTask>>)
  /\ ev' = "submit"

FetchNext ==
  \/ makeRequest /\ UNCHANGED <<cvars, ovars>>
  \/ \E w \in WorkerIds : WaitOver(w) /\ UNCHANGED <<cvars, ovars>>
  \/ \E w \in WorkerIds, r \in FetchResponses : FetchSettle(w, r) /\ UNCHANGED <<cvars, ovars>>
  \/ \E w \in WorkerIds : DelayOver(w) /\ UNCHANGED <<cvars, ovars>>
  \/ Tick /\ UNCHANGED <<cvars, ovars>>

SpecFetch == Init /\ [][FetchNext]_vars

\* C13: when an upstream call settles with a response, ok or not (401, 403,
\* 404, 5xx), the quota state has been updated from the response's metadata
\* in the step that delivers the outcome: reset and limit are the
\* response's, and for a failed call the whole state is; a response without
\* metadata updates nothing; a call that got no response leaves the state
\* as it was.
C13_UpdatedOnEveryResponse ==
  [][\A w \in WorkerIds, r \in FetchResponses :
       FetchSettle(w, r) =>
         /\ r.kind = "network" => state' = state
         /\ (r.kind # "network" /\ r.headers # NoHeaders) =>
              /\ state'.reset = r.headers.reset
              /\ state'.limit = r.headers.limit
         /\ (r.kind = "http_error" /\ r.headers # NoHeaders) =>
              state' = r.headers
         /\ (r.kind = "http_error" /\ r.headers = NoHeaders) =>
              state' = state]_vars

\* C13 witness: the only call made so far failed with status 401, and the
\* quota state carries the limit its response announced.
C13_Witness ==
  /\ Len(tasks) = 1
  /\ tasks[1].status = "GitHub API authentication failed"
  /\ state.limit # MaxLimit

Started(t) == \E i \in 1..Len(startOrder) : startOrder[i] = t

\* C14: when a task's upstream call fails, the error goes to that task and
\* to no other (every other task is left as it was), and the worker goes
\* on: every task submitted after a failed one is eventually started (in
\* submission order, as all tasks are).
C14_FailureDoesNotStopQueue ==
  /\ [][\A w \in WorkerIds, r \in Responses :
          Settle(w, r) =>
            /\ tasks'[workers[w].task].status
                 = IF r.kind = "ok" THEN "value" ELSE "error"
            /\ \A u \in TaskIds \ {workers[w].task} : tasks'[u] = tasks[u]]_vars
  /\ [](startOrder = [i \in 1..Len(startOrder) |-> i])
  /\ \A t \in 2..MaxTasks :
       (t <= Len(tasks) /\ \E u \in 1..(t - 1) : tasks[u].status = "error")
         ~> Started(t)

\* C14 witness: the first task has failed, the second one has been started
\* and settled after it, and the third one is running.
C14_Witness ==
  /\ Len(tasks) = 3
  /\ tasks[1].status = "error"
  /\ tasks[2].status = "value"
  /\ tasks[3].status = "running"

\* C15: a get called while an earlier get for the same resource of the same
\* repository is still pending submits no upstream call of its own.
C15_ConcurrentGetsShareOneFetch ==
  [][(/\ Len(gets') = Len(gets) + 1
      /\ ~LastGet'.refresh
      /\ \E g \in 1..Len(gets) :
           /\ gets[g].status = "pending"
           /\ gets[g].kind = LastGet'.kind
           /\ gets[g].repo = LastGet'.repo) =>
       Len(tasks') = Len(tasks)]_vars

\* -------------- repeated gets of one resource of one repository: SpecMemo
\* Every get is for the same kind (project or metrics) of repository 1, so
\* the Map never holds more than one key: nothing is evicted for capacity,
\* and nothing is refreshed.  probe keeps the first get that returned a
\* value: the value, the ttl of the entry it left, the time since.

MemoGet(kind) ==
  /\ \A g \in 1..Len(gets) : gets[g].kind = kind
  /\ OrchGet(kind, 1)

MemoSettle(w, r) ==
  /\ OrchSettleStep(w, r)
  /\ LET g == tasks[workers[w].task].get
     IN probe' = IF probe.st = "never" /\ gets'[g].status = "value"
                 THEN [key |-> KeyOf(gets[g].kind, 1), st |-> "set", v |-> g,
                       ttl |-> defaultTtl, since |-> 0]
                 ELSE probe

MemoTick ==
  /\ TickQueue
  /\ cache' = TickCache(cache)
  /\ probe' = TickProbe
  /\ UNCHANGED <<ovars, ev>>

MemoNext ==
  \/ \E kind \in {"project", "metrics"} : MemoGet(kind)
  \/ \E w \in WorkerIds, r \in OrchResponses : MemoSettle(w, r)
  \/ \E w \in WorkerIds : WaitOverStep(w) /\ UNCHANGED <<cvars, ovars, ev>>
  \/ \E w \in WorkerIds : DelayOverStep(w) /\ UNCHANGED <<cvars, ovars, ev>>
  \/ OrchCleanup
  \/ MemoTick

SpecMemo == OrchInit /\ [][MemoNext]_vars

\* C16: once a get has returned a value, every later get for the same
\* resource called before the ttl of its entry has elapsed (nothing being
\* refreshed or evicted for capacity) submits no upstream call and returns
\* that same value.
C16_RepeatedGetIsMemoized ==
  [][(/\ Len(gets') = Len(gets) + 1
      /\ probe.st = "set"
      /\ probe.since < probe.ttl) =>
       /\ Len(tasks') = Len(tasks)
       /\ LastGet'.status = "value"
       /\ LastGet'.result = probe.v]_vars

SpecClass(r) ==
  IF r.kind = "network" THEN "NetworkFailure"
  ELSE IF r.status = 401 THEN "Unauthorized"
  ELSE IF r.status = 403 /\ r.headers.remaining = 0 THEN "QuotaExceeded"
  ELSE IF r.status = 403 THEN "Forbidden"
  ELSE IF r.status = 404 THEN "NotFound"
  ELSE "UpstreamError"

\* The class an Error of makeRequest belongs to: the throw statement it
\* comes from (the Errors carry nothing but their message).
ClassOfMessage(m) ==
  IF m = "Network error while calling GitHub API" THEN "NetworkFailure"
  ELSE IF m = "GitHub API authentication failed" THEN "Unauthorized"
  ELSE IF m = "GitHub API access forbidden" THEN "Forbidden"
  ELSE IF m \in {"GitHub API rate limit exceeded. Reset time: "
                   \o ResetTimeText(t) : t \in ((-1)..MaxReset) \cup {None}}
  THEN "QuotaExceeded"
  ELSE IF m \in {"GitHub API error: " \o ToString(st) : st \in HttpStatuses}
  THEN "UpstreamError"
  ELSE "none"

\* C18: every failed call is delivered an error of the class its upstream
\* outcome determines: 401 Unauthorized, 403 with remaining = 0
\* QuotaExceeded, other 403 Forbidden, 404 NotFound, no response
\* NetworkFailure, any other status UpstreamError.
C18_FailureClassified ==
  [][\A w \in WorkerIds, r \in FetchResponses :
       (r.kind # "ok" /\ FetchSettle(w, r)) =>
         ClassOfMessage(tasks'[workers[w].task].status) = SpecClass(r)]_vars

Settled(t) == tasks[t].status \notin {"queued", "held", "running"}

\* C19: a call made through makeRequest is sent upstream at most once: the
\* step that delivers its outcome submits and queues nothing, a task is
\* started once, and once its outcome is delivered the task is never queued
\* or started again; the error delivered for a 403 with remaining = 0
\* carries the reset time of the response.
C19_NoRetryAndResetTimeSurfaced ==
  [][/\ \A w \in WorkerIds, r \in FetchResponses :
          FetchSettle(w, r) =>
            /\ Len(tasks') = Len(tasks)
            /\ requestQueue' = requestQueue
            /\ startOrder' = startOrder
            /\ (r.status = 403 /\ r.headers.remaining = 0) =>
                 tasks'[workers[w].task].status
                   = "GitHub API rate limit exceeded. Reset time: "
                       \o ToString(r.headers.reset)
     /\ \A t \in TaskIds :
          /\ Cardinality({i \in 1..Len(startOrder') : startOrder'[i] = t}) <= 1
          /\ Settled(t) =>
               /\ tasks'[t] = tasks[t]
               /\ \A i \in 1..Len(requestQueue') : requestQueue'[i] # t]_vars

\* C19 witness: the first call was refused with 403 and remaining = 0, its
\* caller holds the error with the reset time, and the next call is running.
C19_Witness ==
  /\ Len(tasks) = 2
  /\ tasks[1].status \in {"GitHub API rate limit exceeded. Reset time: "
                            \o ToString(t) : t \in (-1)..MaxReset}
  /\ tasks[2].status = "running"
  /\ startOrder = <<1, 2>>

\* ------------------------------ the project with its health: SpecWith

\* null, what the catch of getProjectWithHealth puts for a failed health.
Null == -7
\* healthCalculator.calculateHealth(metrics): the health computed from the
\* metrics (it carries their number), or Thrown when the scoring fails.
Thrown == -6
calculateHealth(m, ok) == IF ok THEN m ELSE Thrown

\* ProjectService.getProjectWithHealth up to its first suspension: getProject
\* is called, then getProjectHealth, each looking in the Map first; what is
\* missing is submitted, the project's call before the metrics' calls.  The
\* two calls are recorded one after the other in gets.
getProjectWithHealth(r, ok) ==
  /\ Len(gets) < 2 * MaxCalls
  /\ LET g == Len(gets) + 1
         h == g + 1
         p == cacheGet(cache, getRepoKey(r))
         c1 == cacheAfterGet(cache, getRepoKey(r))
         hv == cacheGet(c1, getHealthKey(r))
         c2 == cacheAfterGet(c1, getHealthKey(r))
         m == cacheGet(c2, getMetricsKey(r))
         c3 == cacheAfterGet(c2, getMetricsKey(r))
         sc == calculateHealth(m, ok)
         pget == IF Cached(p)
                 THEN NewGet("project", r, FALSE, 0, "value", p, stale[r])
                 ELSE NewGet("project", r, FALSE, Len(ProjectEndpoints),
                             "pending", None, stale[r])
         hget == IF Cached(hv)
                 THEN NewGet("health", r, FALSE, 0, "value", hv, stale[r])
                 ELSE IF Cached(m)
                 THEN IF sc = Thrown
                      THEN NewGet("health", r, FALSE, 0, "error", None, stale[r])
                      ELSE NewGet("health", r, FALSE, 0, "value", sc, stale[r])
                 ELSE NewGet("health", r, FALSE, Len(MetricsEndpoints),
                             "pending", None, stale[r])
         batch == (IF Cached(p) THEN <<>> ELSE TasksFor(g, ProjectEndpoints))
                  \o (IF Cached(hv) \/ Cached(m) THEN <<>>
                      ELSE TasksFor(h, MetricsEndpoints))
     IN /\ gets' = gets \o <<pget, hget>>
        /\ cache' = IF Cached(hv) THEN c2
                    ELSE IF Cached(m) /\ sc # Thrown
                    THEN cacheSet(c3, getHealthKey(r), sc, None)
                    ELSE c3
        /\ IF batch = <<>> THEN UNCHANGED qvars
           ELSE Submit(requestQueue, tasks, batch)
  /\ Len(tasks') <= MaxOrchTasks
  /\ UNCHANGED <<stale, probe, ev>>

\* An upstream call of getProject or of getProjectHealth settles; with its
\* last one the call resumes: getProject stores the project or throws,
\* getProjectMetrics stores the metrics, and getProjectHealth scores them and
\* stores the health, or throws when the scoring does.
WithSettle(w, r, ok) ==
  /\ SettleTask(w, r, "settled")
  /\ LET g == tasks[workers[w].task].get
         kind == gets[g].kind
         left == gets[g].left - 1
         failed == gets[g].failed \/ r.kind # "ok"
         sc == calculateHealth(g, ok)
         erred == \/ kind = "project" /\ failed
                  \/ kind = "health" /\ left = 0 /\ sc = Thrown
     IN /\ gets' = [gets EXCEPT
              ![g].left = left,
              ![g].failed = failed,
              ![g].status = IF erred THEN "error"
                            ELSE IF left > 0 THEN "pending" ELSE "value",
              ![g].result = IF left > 0 \/ erred THEN None
                            ELSE IF kind = "health" THEN sc ELSE g]
        /\ cache' = IF left > 0 THEN cache
                    ELSE IF kind = "health" /\ sc = Thrown
                    THEN cacheSet(cache, getMetricsKey(gets[g].repo), g, None)
                    ELSE StoreResult(cache, g, kind, gets[g].repo, failed)
  /\ UNCHANGED <<stale, probe, ev>>

WithNext ==
  \/ \E r \in Repos, ok \in BOOLEAN : getProjectWithHealth(r, ok)
  \/ \E w \in WorkerIds, r \in OrchResponses, ok \in BOOLEAN : WithSettle(w, r, ok)
  \/ \E w \in WorkerIds : WaitOverStep(w) /\ UNCHANGED <<cvars, ovars, ev>>
  \/ \E w \in WorkerIds : DelayOverStep(w) /\ UNCHANGED <<cvars, ovars, ev>>
  \/ OrchCleanup
  \/ OrchTick

SpecWith == OrchInit /\ [][WithNext]_vars

\* this.getProjectHealth(owner, repo).catch(() => null)
CatchNotIsWrong(x) == [status |-> x.status, result |-> x.result]
CatchNull(x) ==
  IF x.status = "error" THEN [status |-> "value", result |-> Null]
  ELSE [status |-> x.status, result |-> x.result]

\* What getProjectWithHealth has returned or thrown, given its call of
\* getProject (a) and of getProjectHealth (b): Promise.all rejects as soon as
\* one of its promises does, and `health || undefined` leaves no health
\* (None) for null.
WithHealth(a, b) ==
  LET x == CatchNull(b)
  IN IF a.status = "error" \/ x.status = "error"
     THEN [status |-> "error", project |-> None, health |-> None]
     ELSE IF a.status = "pending" \/ x.status = "pending"
     THEN [status |-> "pending", project |-> None, health |-> None]
     ELSE [status |-> "value", project |-> a.result,
           health |-> IF x.result = Null THEN None ELSE x.result]

\* The calls of getProjectWithHealth: the numbers of their getProject calls.
WithCalls == {g \in 1..Len(gets) : g % 2 = 1}

\* C20: getProjectWithHealth fails exactly when its getProject has failed;
\* when getProject has returned a project and getProjectHealth has failed,
\* it returns that project with no health, and when both have returned it
\* returns the project with the health.
C20_HealthIsBestEffort ==
  \A g \in WithCalls :
    LET a == gets[g]
        b == gets[g + 1]
        o == WithHealth(a, b)
    IN /\ o.status = "error" <=> a.status = "error"
       /\ (a.status = "value" /\ b.status = "error") =>
             o = [status |-> "value", project |-> a.result, health |-> None]
       /\ (a.status = "value" /\ b.status = "value") =>
             o = [status |-> "value", project |-> a.result, health |-> b.result]

\* A project fetched from upstream whose health failed in the scoring, and
\* a later call whose project fetch failed while its health was computed.
C20_Witness ==
  /\ Len(gets) = 4
  /\ gets[1].status = "value" /\ gets[1].result = 1
  /\ gets[2].status = "error" /\ gets[2].failed
  /\ WithHealth(gets[1], gets[2]).health = None
  /\ gets[3].status = "error"
  /\ gets[4].status = "value"

\* --------------------------- one getProjectMetrics, call by call: SpecMetrics

MaxMetricsGets == 1

MetricsGet ==
  /\ Len(gets) < MaxMetricsGets
  /\ OrchGet("metrics", 1)

\* An upstream call of getProjectMetrics settles; the task keeps whether
\* makeRequest returned ("value") or threw ("error").
MetricsSettle(w, r) ==
  /\ SettleTask(w, r, Outcome(r))
  /\ OrchResume(w, r)
  /\ UNCHANGED <<stale, probe, ev>>

MetricsNext ==
  \/ MetricsGet
  \/ \E w \in WorkerIds, r \in OrchResponses : MetricsSettle(w, r)
  \/ \E w \in WorkerIds : WaitOverStep(w) /\ UNCHANGED <<cvars, ovars, ev>>
  \/ \E w \in WorkerIds : DelayOverStep(w) /\ UNCHANGED <<cvars, ovars, ev>>
  \/ OrchCleanup
  \/ OrchTick

SpecMetrics == OrchInit /\ [][MetricsNext]_vars

\* The upstream call of call g to endpoint ep, and whether its makeRequest
\* returned.  What a list endpoint returns to call g is the list <<g>>.
CallOf(ts, g, ep) == CHOOSE t \in 1..Len(ts) : ts[t].get = g /\ ts[t].ep = ep
Returned(ts, g, ep) == ts[CallOf(ts, g, ep)].status = "value"

\* The private sub-fetches of getProjectMetrics, each with its catch.
getCommitActivity(ts, g) ==
  IF Returned(ts, g, "stats/commit_activity") THEN <<g>> ELSE <<>>

getContributors(ts, g) ==
  IF Returned(ts, g, "contributors") THEN <<g>> ELSE <<>>

\* The averages are computed from the dates of the items, which are left out.
getIssueStatsPartialIsWrong(ts, g) ==
  LET open == IF Returned(ts, g, "issues?state=open") THEN <<g>> ELSE <<>>
      closed == IF Returned(ts, g, "issues?state=closed") THEN <<g>> ELSE <<>>
  IN [total |-> Len(open) + Len(closed), open |-> Len(open),
      closed |-> Len(closed)]
getIssueStats(ts, g) ==
  IF Returned(ts, g, "issues?state=open") /\ Returned(ts, g, "issues?state=closed")
  THEN LET openIssues == <<g>>
           closedIssues == <<g>>
       IN [total |-> Len(openIssues) + Len(closedIssues),
           open |-> Len(openIssues), closed |-> Len(closedIssues)]
  ELSE [total |-> 0, open |-> 0, closed |-> 0]

getPullRequestStats(ts, g) ==
  IF Returned(ts, g, "pulls?state=open") /\ Returned(ts, g, "pulls?state=closed")
  THEN LET openPRs == <<g>>
           closedPRs == <<g>>
       IN [total |-> Len(openPRs) + Len(closedPRs), open |-> Len(openPRs),
           closed |-> Len(closedPRs), merged |-> Len(closedPRs)]
  ELSE [total |-> 0, open |-> 0, closed |-> 0, merged |-> 0]

getDocumentationCheck(ts, g) ==
  [hasReadme |-> Returned(ts, g, "contents/README.md"),
   hasLicense |-> Returned(ts, g, "contents/LICENSE"),
   hasContributing |-> Returned(ts, g, "contents/CONTRIBUTING.md"),
   hasChangelog |-> Returned(ts, g, "contents/CHANGELOG.md"),
   hasCodeOfConduct |-> Returned(ts, g, "contents/CODE_OF_CONDUCT.md")]

\* The ProjectMetrics call g of getProjectMetrics assembles from its upstream
\* calls ts, once they have all settled.
AssembledMetrics(ts, g) ==
  [commitActivity |-> getCommitActivity(ts, g),
   contributors |-> getContributors(ts, g),
   issueStats |-> getIssueStats(ts, g),
   pullRequestStats |-> getPullRequestStats(ts, g),
   documentation |-> getDocumentationCheck(ts, g)]

\* Call g went upstream (a miss) and all its upstream calls have settled.
FetchedAll(g) ==
  /\ gets[g].kind = "metrics"
  /\ gets[g].left = 0
  /\ \E t \in 1..Len(tasks) : tasks[t].get = g
Failed(g, ep) == tasks[CallOf(tasks, g, ep)].status = "error"

\* C21: a getProjectMetrics that went upstream returns a value whatever its
\* upstream calls came to, and in the metrics it assembles every sub-fetch
\* with a failed call has its default (empty list, zero counts, false) while
\* every sub-fetch whose calls all returned has what was fetched.
C21_MetricsDefaultOnSubFetchFailure ==
  \A g \in 1..Len(gets) : FetchedAll(g) =>
    LET m == AssembledMetrics(tasks, g)
        issuesFailed == Failed(g, "issues?state=open") \/ Failed(g, "issues?state=closed")
        pullsFailed == Failed(g, "pulls?state=open") \/ Failed(g, "pulls?state=closed")
    IN /\ gets[g].status = "value"
       /\ m.commitActivity =
            IF Failed(g, "stats/commit_activity") THEN <<>> ELSE <<g>>
       /\ m.contributors = IF Failed(g, "contributors") THEN <<>> ELSE <<g>>
       /\ m.issueStats = IF issuesFailed
                         THEN [total |-> 0, open |-> 0, closed |-> 0]
                         ELSE [total |-> 2, open |-> 1, closed |-> 1]
       /\ m.pullRequestStats =
            IF pullsFailed
            THEN [total |-> 0, open |-> 0, closed |-> 0, merged |-> 0]
            ELSE [total |-> 2, open |-> 1, closed |-> 1, merged |-> 1]
       /\ m.documentation.hasReadme = ~Failed(g, "contents/README.md")
       /\ m.documentation.hasLicense = ~Failed(g, "contents/LICENSE")
       /\ m.documentation.hasContributing = ~Failed(g, "contents/CONTRIBUTING.md")
       /\ m.documentation.hasChangelog = ~Failed(g, "contents/CHANGELOG.md")
       /\ m.documentation.hasCodeOfConduct =
            ~Failed(g, "contents/CODE_OF_CONDUCT.md")

\* A completed call with failed and returned sub-fetches, one of the two
\* issue calls among the failed.
C21_Witness ==
  /\ Len(gets) = 1 /\ FetchedAll(1)
  /\ Failed(1, "stats/commit_activity")
  /\ ~Failed(1, "contributors")
  /\ ~Failed(1, "issues?state=open") /\ Failed(1, "issues?state=closed")
  /\ ~Failed(1, "pulls?state=open") /\ ~Failed(1, "pulls?state=closed")
  /\ Failed(1, "contents/README.md") /\ ~Failed(1, "contents/LICENSE")
  /\ gets[1].status = "value"

\* ------------------------------------- the observability queries: SpecQuota

\* The limits the constructor gives: without and with a token.
AnonymousLimit == 60
TokenLimit == 5000
MaxSmallLimit == 10   \* the other limits asked about: 1..MaxSmallLimit

\* GET /rate-limit/status: getStatus(), isNearLimit() and
\* getRecommendedCacheTTL() are read into the response.
RateLimitStatus ==
  /\ ev' = "status"
  /\ UNCHANGED <<qvars, cvars, ovars>>

\* The quota states asked about: any limit of QuotaLimits with any remaining.
QuotaLimits == {AnonymousLimit, TokenLimit} \cup (1..MaxSmallLimit)
QuotaStates ==
  {[remaining |-> r, reset |-> Window, limit |-> l, used |-> l - r] :
     <<l, r>> \in {p \in QuotaLimits \X (0..TokenLimit) : p[2] <= p[1]}}

QuotaInit ==
  /\ state \in QuotaStates
  /\ requestQueue = <<>>
  /\ isProcessingQueue = FALSE
  /\ workers = [w \in WorkerIds |-> NoWorker]
  /\ tasks = <<>>
  /\ startOrder = <<>>
  /\ zeroT = None
  /\ admit = "none"
  /\ InitCache
  /\ InitOrch
  /\ probe = [key |-> NoKey, st |-> "never"]
  /\ ev = "init"

QuotaNext == RateLimitStatus

SpecQuota == QuotaInit /\ [][QuotaNext]_vars

\* C22: isNearLimit() is true exactly when at least 80% of the limit is
\* consumed, 5 * (limit - remaining) >= 4 * limit.
C22_NearLimitFromEightyPercent ==
  ev = "status" =>
    (isNearLimit(state) <=>
       5 * (state.limit - state.remaining) >= 4 * state.limit)

\* C23: getRecommendedCacheTTL() is 15, 20 or 30 minutes, 30 whenever
\* isNearLimit() is true, and for the same limit it is never shorter at a
\* smaller remaining than at a larger one.
C23_TtlGrowsAsQuotaShrinks ==
  ev = "status" =>
    /\ getRecommendedCacheTTL(state) \in {15, 20, 30}
    /\ isNearLimit(state) => getRecommendedCacheTTL(state) = 30
    /\ \A r1 \in 0..state.remaining :
         getRecommendedCacheTTL([state EXCEPT !.remaining = r1])
           >= getRecommendedCacheTTL(state)

\* The three values are all returned, the longer ones at the smaller remaining.
C23_Witness ==
  /\ ev = "status"
  /\ state.limit = TokenLimit
  /\ getRecommendedCacheTTL(state) = 15
  /\ getRecommendedCacheTTL([state EXCEPT !.remaining = 0]) = 30
  /\ getRecommendedCacheTTL([state EXCEPT !.limit = AnonymousLimit,
                                          !.remaining = 12]) = 20

\* ------------------- the queries beside the acquisition: SpecObserve

\* getStats()
getStats(c) == [size |-> Len(c), maxSize |-> maxSize, defaultTtl |-> defaultTtl]

\* getStatus()
getStatus(s) ==
  [remaining |-> s.remaining, reset |-> s.reset, limit |-> s.limit,
   used |-> s.used, timeUntilReset |-> timeUntilReset(s)]

\* GET /api/health/cache/stats: getStats() is read into the response.
CacheStats ==
  /\ ev' = "stats"
  /\ UNCHANGED <<qvars, cvars, ovars>>

ObserveNext ==
  \/ MemoNext
  \/ RateLimitStatus
  \/ CacheStats

SpecObserve == OrchInit /\ [][ObserveNext]_vars

\* C24: a step of the status query or of the cache statistics query leaves
\* the Map, the quota state and the queue as they were, whatever they hold;
\* and the timeUntilReset reported is the time left to the reset, 0 once it
\* has passed, never negative.
C24_QueriesReadOnly ==
  /\ [][(RateLimitStatus \/ CacheStats) =>
          /\ cache' = cache
          /\ state' = state
          /\ requestQueue' = requestQueue
          /\ isProcessingQueue' = isProcessingQueue
          /\ tasks' = tasks
          /\ workers' = workers]_vars
  /\ [](/\ getStatus(state).timeUntilReset >= 0
        /\ getStatus(state).timeUntilReset =
             IF state.reset > 0 THEN state.reset ELSE 0
        /\ getStats(cache).size = Len(cache))

\* The status is asked once the reset time has passed, with entries in the
\* Map and tasks in the queue.
C24_Witness ==
  /\ ev = "status"
  /\ state.reset < 0
  /\ cache # <<>>
  /\ requestQueue # <<>>

\* ----------------------------------------------- claims about the sweeps

\* The entry the Map holds under key k.
EntryOf(c, k) == c[IndexOf(c, k)]
\* The ttl of an entry has elapsed: it is no longer younger than its ttl.
Elapsed(e) == e.age >= e.ttl

\* C25: get(k) of an entry whose ttl has elapsed removes it (one entry
\* fewer) and returns null; get(k) of an entry younger than its ttl, or of a
\* key the Map does not hold, leaves the Map as it is; and no entry under
\* another key is removed, changed or moved by either.
C25_GetEvictsLazily ==
  [][\A k \in CacheKeys : Get(k) =>
       /\ (Has(cache, k) /\ Elapsed(EntryOf(cache, k))) =>
             /\ ~Has(cache', k)
             /\ Len(cache') = Len(cache) - 1
             /\ cacheGet(cache, k) = None
       /\ (Has(cache, k) /\ ~Elapsed(EntryOf(cache, k))) =>
             /\ cache' = cache
             /\ cacheGet(cache, k) = EntryOf(cache, k).data
       /\ ~Has(cache, k) => cache' = cache /\ cacheGet(cache, k) = None
       /\ MapDelete(cache', k) = MapDelete(cache, k)]_vars

\* C26: cleanup() removes every entry whose ttl has elapsed, removes no
\* entry get would still return (and leaves it as it is), and the keys it
\* removes are those for which get returns null.
C26_SweepAgreesWithGet ==
  [][Cleanup =>
       /\ \A i \in 1..Len(cache) :
            Elapsed(cache[i]) => ~Has(cache', cache[i].key)
       /\ \A i \in 1..Len(cache) :
            cacheGet(cache, cache[i].key) # None =>
               /\ Has(cache', cache[i].key)
               /\ EntryOf(cache', cache[i].key) = cache[i]
       /\ KeysOf(cache) \ KeysOf(cache')
            = {k \in KeysOf(cache) : cacheGet(cache, k) = None}]_vars

\* ------------------------------------------- the Scoring Engine: SpecScore

MaxTier == 2   \* tiers of a sub-factor above its floor

\* What the scoring reads of a ProjectMetrics: the points its tiers give to
\* each sub-factor, and the five documentation flags.
PointsUpTo(top) == {(top * i) \div MaxTier : i \in 0..MaxTier}
ScoredMetrics ==
  [commits : PointsUpTo(40), closeTime : PointsUpTo(30),
   mergeTime : PointsUpTo(40), community : PointsUpTo(100),
   closeRatio : PointsUpTo(50), mergeRatio : PointsUpTo(50),
   documentation : [hasReadme : BOOLEAN, hasLicense : BOOLEAN,
                    hasContributing : BOOLEAN, hasChangelog : BOOLEAN,
                    hasCodeOfConduct : BOOLEAN]]

\* Activity: the allotments of the three sub-factors, their sum capped at 100.
calculateActivityScore(m) == Min(100, m.commits + m.closeTime + m.mergeTime)
\* Community: the tier of the contributor count with the concentration
\* adjustment, as one allotment.
calculateCommunityScore(m) == m.community
\* Maintenance: close ratio and merge ratio, 50 points each.
calculateMaintenanceScore(m) == m.closeRatio + m.mergeRatio
\* Documentation: 35/25/20/10/10 for the files present.
calculateDocumentationScore(m) ==
  (IF m.documentation.hasReadme THEN 35 ELSE 0)
  + (IF m.documentation.hasLicense THEN 25 ELSE 0)
  + (IF m.documentation.hasContributing THEN 20 ELSE 0)
  + (IF m.documentation.hasChangelog THEN 10 ELSE 0)
  + (IF m.documentation.hasCodeOfConduct THEN 10 ELSE 0)

\* A hundred times the weighted sum 0.30 a + 0.25 c + 0.25 m + 0.20 d.
WeightedSum(s) ==
  30 * s.activity + 25 * s.community + 25 * s.maintenance + 20 * s.documentation

\* Overall: the weighted sum rounded to the nearest integer, a half upwards.
calculateOverallScoreFloorIsWrong(s) == WeightedSum(s) \div 100
calculateOverallScore(s) == (WeightedSum(s) + 50) \div 100

\* calculateHealth(metrics) of the Scoring Engine: scores and overall score.
calculateHealthScores(m) ==
  LET s == [activity |-> calculateActivityScore(m),
            community |-> calculateCommunityScore(m),
            maintenance |-> calculateMaintenanceScore(m),
            documentation |-> calculateDocumentationScore(m)]
  IN [overallScore |-> calculateOverallScore(s), scores |-> s]

\* The Map holds the metrics of repository 1, just stored.
ScoreInit ==
  /\ InitQueue
  /\ \E m \in ScoredMetrics :
       cache = <<[key |-> getMetricsKey(1), data |-> m, age |-> 0,
                  ttl |-> defaultTtl]>>
  /\ InitOrch
  /\ probe = [key |-> NoKey, st |-> "never"]
  /\ ev = "init"

\* getProjectHealth(owner, repo) with no health cached and the metrics
\* cached: the health is computed from them, stored and returned.
ScoreHealth ==
  /\ ~(Has(cache, getHealthKey(1))
        /\ ~Expired(EntryOf(cache, getHealthKey(1))))
  /\ Has(cache, getMetricsKey(1))
  /\ ~Expired(EntryOf(cache, getMetricsKey(1)))
  /\ cache' = cacheSet(cacheAfterGet(cache, getHealthKey(1)), getHealthKey(1),
                       calculateHealthScores(cacheGet(cache, getMetricsKey(1))),
                       None)
  /\ ev' = "health"
  /\ UNCHANGED <<qvars, ovars, probe>>

ScoreTick ==
  /\ cache' = TickCache(cache)
  /\ ev' = "tick"
  /\ UNCHANGED <<qvars, ovars, probe>>

ScoreNext ==
  \/ ScoreHealth
  \/ ScoreTick

SpecScore == ScoreInit /\ [][ScoreNext]_vars

\* The health the Map holds, when it holds one.
HasHealth == Has(cache, getHealthKey(1))
HealthHeld == EntryOf(cache, getHealthKey(1)).data

SpaceSettle(w, r) ==
  /\ Settle(w, r)
  /\ probe' = [key |-> NoKey, st |-> "set", v |-> workers[w].task,
               ttl |-> Delay, since |-> 0]
  /\ UNCHANGED <<cache, ovars>>

SpaceTick ==
  /\ Tick
  /\ probe' = TickProbe
  /\ UNCHANGED <<cache, ovars>>

SpaceNext ==
  \/ executeRequest /\ UNCHANGED <<cvars, ovars>>
  \/ \E w \in WorkerIds : WaitOver(w) /\ UNCHANGED <<cvars, ovars>>
  \/ \E w \in WorkerIds, r \in Responses : SpaceSettle(w, r)
  \/ \E w \in WorkerIds : DelayOver(w) /\ UNCHANGED <<cvars, ovars>>
  \/ SpaceTick

SpaceFairness ==
  /\ WF_vars(SpaceTick)
  /\ WF_vars(\E w \in WorkerIds : WaitOver(w) /\ UNCHANGED <<cvars, ovars>>)
  /\ WF_vars(\E w \in WorkerIds, r \in Responses : SpaceSettle(w, r))
  /\ WF_vars(\E w \in WorkerIds : DelayOver(w) /\ UNCHANGED <<cvars, ovars>>)

SpecSpace == Init /\ [][SpaceNext]_vars /\ SpaceFairness

\* Task t is taken from the queue by the step: its request() is called.
TakenUp(t) ==
  /\ t <= Len(tasks')
  /\ tasks'[t].status \in {"held", "running"}
  /\ t > Len(tasks) \/ tasks[t].status = "queued"

\* C29: no task is taken from the queue before Delay has passed since the
\* last task settled, with a value or an error, whatever the queue and the
\* quota hold; a task submitted in between is queued, and every task
\* submitted is taken up in the end.
C29_SpacingBetweenTasks ==
  /\ [][/\ (probe.st = "set" /\ \E t \in 1..Len(tasks') : TakenUp(t)) =>
             probe.since >= Delay
        /\ (Len(tasks') > Len(tasks) /\ probe.st = "set" /\ probe.since < Delay) =>
             /\ tasks'[Len(tasks')].status = "queued"
             /\ requestQueue' = Append(requestQueue, Len(tasks'))]_vars
  /\ \A t \in 1..MaxTasks : (t <= Len(tasks)) ~> Started(t)

\* A task has just been submitted within Delay of a failed task's end, with
\* quota available and another task already queued.
C29_Witness ==
  /\ ev = "submit"
  /\ probe.st = "set" /\ probe.since < Delay
  /\ tasks[probe.v].status = "error"
  /\ Len(requestQueue) = 2
  /\ canMakeRequest(state)

\* ------------------------------------ claims about a failed getProject

\* C30: when the upstream call of a getProject fails, the call ends with
\* that error and the step leaves the Map as it was; and a getProject for a
\* repository whose earlier getProject calls have all failed finds nothing
\* cached and submits an upstream call of its own.
C30_FailedProjectGetIsNotCached ==
  [][/\ \A w \in WorkerIds, r \in OrchResponses :
          (/\ MemoSettle(w, r)
           /\ r.kind # "ok"
           /\ gets[tasks[workers[w].task].get].kind = "project") =>
             /\ gets'[tasks[workers[w].task].get].status = "error"
             /\ gets'[tasks[workers[w].task].get].result = None
             /\ cache' = cache
     /\ (/\ Len(gets') = Len(gets) + 1
         /\ LastGet'.kind = "project"
         /\ \A g \in 1..Len(gets) : gets[g].status = "error") =>
            /\ cacheGet(cache, getRepoKey(LastGet'.repo)) = None
            /\ LastGet'.status = "pending"
            /\ Len(tasks') = Len(tasks) + 1
            /\ tasks'[Len(tasks')].get = Len(gets')
            /\ tasks'[Len(tasks')].ep = "repos"]_vars

\* A getProject has failed and the next one, fetched anew, has returned.
C30_Witness ==
  /\ Len(gets) = 2
  /\ gets[1].kind = "project" /\ gets[1].status = "error"
  /\ gets[2].status = "value" /\ gets[2].result = 2
  /\ Len(tasks) = 2

\* ------------------------------------------- claims about a stalled call

\* C31: while the upstream call of a task is outstanding, every step other
\* than the return of that call starts no task, settles no task and leaves
\* the worker where it is, however much time passes and whatever is
\* submitted: if the call never returns, no later task is started or
\* answered.
C31_HangStallsQueue ==
  [][\A w \in WorkerIds :
       (workers[w].pc = "fetch" /\ ~\E r \in Responses : Settle(w, r)) =>
          /\ workers'[w] = workers[w]
          /\ startOrder' = startOrder
          /\ \A t \in 1..Len(tasks) : tasks'[t] = tasks[t]
          /\ \A t \in (Len(tasks) + 1)..Len(tasks') : tasks'[t].status = "queued"
          /\ \A i \in 1..Len(requestQueue) : requestQueue'[i] = requestQueue[i]]_vars

\* The first call is still outstanding after the reset time has passed,
\* with two tasks queued behind it.
C31_Witness ==
  /\ \E w \in WorkerIds : workers[w].pc = "fetch" /\ workers[w].task = 1
  /\ requestQueue = <<2, 3>>
  /\ state.reset < 0
  /\ startOrder = <<1>>

\* ---------------------------------------- claims about the usage count

\* A step in which a call returns a response with quota metadata.
SettleWithMetadata ==
  \E w \in WorkerIds, r \in Responses : Settle(w, r) /\ r.headers # NoHeaders

\* C32: the return of a successful call leaves remaining one below and used
\* one above what the response's metadata say (what they were, for a field
\* the response does not give); the return of a failed call leaves them at
\* the metadata, or as they were.  A step that brings no metadata changes
\* remaining + used only by the reset of canMakeRequest.
C32_LocalUsageAccounting ==
  [][/\ \A w \in WorkerIds, r \in Responses : Settle(w, r) =>
          LET u == IF r.kind = "network" THEN state
                   ELSE updateFromHeaders(state, r.headers)
          IN /\ r.kind = "ok" =>
                  /\ state'.remaining = u.remaining - 1
                  /\ state'.used = u.used + 1
                  /\ state'.limit = u.limit /\ state'.reset = u.reset
             /\ r.kind # "ok" => state' = u
             /\ (r.kind # "ok" /\ r.headers = NoHeaders) => state' = state
     /\ ~SettleWithMetadata =>
          \/ state'.remaining + state'.used = state.remaining + state.used
          \/ /\ ResetPassed(state)
             /\ state'.remaining = state.limit /\ state'.used = 0]_vars

\* Two calls have succeeded and one has failed, and the count stands at two.
C32_Witness ==
  /\ Len(tasks) = 3
  /\ tasks[1].status = "value"
  /\ tasks[2].status = "error"
  /\ tasks[3].status = "value"
  /\ state.limit = MaxLimit
  /\ state.used = 2
  /\ state.remaining = MaxLimit - 2

\* ------------------------------------------ claims about the worker loop

\* The activations of processQueue that are in their loop.
ActiveWorkers == {w \in WorkerIds : workers[w].pc # "none"}

\* C33: whenever a task is queued a worker is active, the flag
\* isProcessingQueue is true exactly when one is, there is never more than
\* one, and a worker ends only in a step that finds the queue empty and
\* leaves it empty.
C33_QueuedTaskHasWorker ==
  /\ [](/\ requestQueue # <<>> => isProcessingQueue
        /\ isProcessingQueue <=> ActiveWorkers # {}
        /\ Cardinality(ActiveWorkers) <= 1
        /\ \A t \in 1..Len(tasks) :
             tasks[t].status = "queued" <=> \E i \in 1..Len(requestQueue) :
                                              requestQueue[i] = t)
  /\ [][(isProcessingQueue /\ ~isProcessingQueue') =>
          requestQueue = <<>> /\ requestQueue' = <<>>]_vars

\* Two tasks are queued while the worker, its first task done, sleeps out
\* the spacing delay.
C33_Witness ==
  /\ Done(1)
  /\ requestQueue = <<2, 3>>
  /\ isProcessingQueue
  /\ \E w \in WorkerIds : workers[w].pc = "delay" /\ workers[w].timer > 0

\* ------- gets of the metrics and the health of one repository: SpecDegraded
\* probe keeps the first call that returned metrics or a health with a
\* failed sub-fetch behind them: the call, the default ttl, the time since.

DegradedGet(kind) == OrchGet(kind, 1)

DegradedSettle(w, r) ==
  /\ OrchSettleStep(w, r)
  /\ LET g == tasks[workers[w].task].get
     IN probe' = IF /\ probe.st = "never"
                    /\ gets'[g].status = "value"
                    /\ gets'[g].failed
                 THEN [key |-> KeyOf(gets[g].kind, 1), st |-> "set", v |-> g,
                       ttl |-> defaultTtl, since |-> 0]
                 ELSE probe

\* The spacing delay of the worker runs down while a time passes that is
\* too short to count for the reset time or for the age of an entry (100 ms
\* against an hour and against the three days of the default ttl).
DelayTick ==
  /\ workers' = [w \in WorkerIds |->
                   IF workers[w].pc = "delay" THEN TickWorker(workers[w])
                   ELSE workers[w]]
  /\ admit' = "none"
  /\ UNCHANGED <<state, requestQueue, isProcessingQueue, tasks, startOrder,
                 zeroT, cvars, ovars, ev>>

DegradedNext ==
  \/ \E kind \in {"metrics", "health"} : DegradedGet(kind)
  \/ OrchRefresh(1)
  \/ \E w \in WorkerIds, r \in OrchResponses : DegradedSettle(w, r)
  \/ \E w \in WorkerIds : WaitOverStep(w) /\ UNCHANGED <<cvars, ovars, ev>>
  \/ \E w \in WorkerIds : DelayOverStep(w) /\ UNCHANGED <<cvars, ovars, ev>>
  \/ OrchCleanup
  \/ MemoTick
  \/ DelayTick

SpecDegraded == OrchInit /\ [][DegradedNext]_vars

\* The step ends call g with a value built over a failed sub-fetch.
EndsDegraded(g) ==
  /\ gets[g].status = "pending"
  /\ gets'[g].status = "value"
  /\ gets'[g].failed

\* The Map holds under key k the value v, just stored with the default ttl.
StoredByDefault(c, k, v) ==
  /\ Has(c, k)
  /\ EntryOf(c, k) = [key |-> k, data |-> v, age |-> 0, ttl |-> defaultTtl]

\* C34: a call that ends with metrics (and a health) built over failed
\* sub-fetches stores them as its own value with the default ttl; and until
\* that ttl has elapsed or a refresh is called, every later get of the
\* metrics or the health returns that value and submits no upstream call.
C34_DegradedResultsMemoized ==
  [][/\ \A g \in 1..Len(gets) : EndsDegraded(g) =>
          /\ StoredByDefault(cache', getMetricsKey(1), g)
          /\ gets[g].kind = "health" =>
                StoredByDefault(cache', getHealthKey(1), g)
     /\ (/\ Len(gets') = Len(gets) + 1
         /\ ~LastGet'.refresh
         /\ probe.st = "set"
         /\ probe.since < probe.ttl
         /\ \A h \in (probe.v + 1)..Len(gets) : ~gets[h].refresh) =>
            /\ LastGet'.status = "value"
            /\ LastGet'.result = probe.v
            /\ Len(tasks') = Len(tasks)]_vars

\* --------------------------------------- Upstream calls of one get

\* The upstream calls the step submits: the tasks it adds to the queue's record.
Submitted == {tasks'[i].ep : i \in (Len(tasks) + 1)..Len(tasks')}

\* The step submits these calls, one task each, all for the call just made.
SubmitsExactly(eps) ==
  /\ Len(tasks') = Len(tasks) + Cardinality(eps)
  /\ Submitted = eps
  /\ \A i \in (Len(tasks) + 1)..Len(tasks') :
       tasks'[i] \in [status : {"queued", "running"}, get : {Len(gets')},
                     ep : eps]

\* The lookup of key k in the Map c comes back empty.
Misses(c, k) == cacheGet(c, k) = None

\* C35: a metrics get whose lookup misses submits exactly the 11 upstream
\* calls (commit activity, contributors, open and closed issues, open and
\* closed pull requests, five documentation files); a health get that misses
\* both the health and the metrics submits the same 11 and no more; a health
\* get that misses the health and finds the metrics submits none.
C35_UpstreamCallsPerGet ==
  [][(Len(gets') = Len(gets) + 1 /\ ~LastGet'.refresh) =>
       LET eleven == {"stats/commit_activity", "contributors",
                      "issues?state=open", "issues?state=closed",
                      "pulls?state=open", "pulls?state=closed",
                      "contents/README.md", "contents/LICENSE",
                      "contents/CONTRIBUTING.md", "contents/CHANGELOG.md",
                      "contents/CODE_OF_CONDUCT.md"}
           mkey == getMetricsKey(1)
           hkey == getHealthKey(1)
       IN /\ (LastGet'.kind = "metrics" /\ Misses(cache, mkey)) =>
                SubmitsExactly(eleven)
          /\ (LastGet'.kind = "health" /\ Misses(cache, hkey)
                /\ Misses(cache, mkey)) => SubmitsExactly(eleven)
          /\ (LastGet'.kind = "health" /\ Misses(cache, hkey)
                /\ ~Misses(cache, mkey)) => SubmitsExactly({})]_vars

\* A metrics get fetched and stored; the first health get found the metrics
\* and submitted nothing; after the entries were gone a third get, for the
\* health, missed both and submitted the second 11 calls.
C35_Witness ==
  /\ Len(gets) = 3 /\ Len(tasks) = 22
  /\ gets[1].kind = "metrics" /\ gets[1].status = "value"
  /\ gets[2].kind = "health" /\ ~gets[2].refresh /\ gets[2].result = 1
  /\ gets[3].kind = "health" /\ ~gets[3].refresh /\ gets[3].status = "pending"
  /\ \A i \in 1..11 : tasks[i].get = 1 /\ tasks[i + 11].get = 3

\* ------------------------------------- Responses with some quota headers

\* Quota metadata with any of the four headers missing: a full set of
\* headers (with the reset time at the current instant) less the headers in d.
Without(h, d) == [f \in DOMAIN h |-> IF f \in d THEN None ELSE h[f]]

PartialHeaders ==
  {Without(h, d) : h \in {x \in FullHeaders : x.reset = 0},
                   d \in SUBSET {"remaining", "reset", "limit", "used"}}

HeaderResponses == [kind : {"ok", "http_error"}, headers : PartialHeaders]

\* How many of the four headers the response carries.
Shape(h) ==
  IF h = NoHeaders THEN "bare"
  ELSE IF \A f \in DOMAIN h : h[f] # None THEN "full" ELSE "partial"

\* The response of a getProject fetch arrives with the headers r.headers.
HeaderSettle(w, r) ==
  /\ SettleTask(w, r, "settled")
  /\ OrchResume(w, r)
  /\ ev' = Shape(r.headers)
  /\ UNCHANGED <<stale, probe>>

HeaderNext ==
  \/ MemoGet("project")
  \/ \E w \in WorkerIds, r \in HeaderResponses : HeaderSettle(w, r)
  \/ \E w \in WorkerIds : WaitOverStep(w) /\ UNCHANGED <<cvars, ovars, ev>>
  \/ \E w \in WorkerIds : DelayOverStep(w) /\ UNCHANGED <<cvars, ovars, ev>>
  \/ MemoTick

SpecHeaders == OrchInit /\ [][HeaderNext]_vars

\* The quota state as updateFromHeaders left it in the step of response r:
\* the state after the step, less the local accounting of a success.
AsUpdated(r) ==
  IF r.kind = "ok"
  THEN [state' EXCEPT !.remaining = @ + 1, !.used = @ - 1]
  ELSE state'

\* C36: when a response arrives, updateFromHeaders sets each quota field whose
\* header is present to the header's value and leaves each field whose header
\* is absent as it was; the request queue is not changed, and the cache is
\* not changed when the response is an error (on a success it is changed by
\* the cache.set of the get, and by nothing else).
C36_HeadersUpdateOnlyPresentFields ==
  [][\A w \in WorkerIds, r \in HeaderResponses : HeaderSettle(w, r) =>
       /\ \A f \in {"remaining", "reset", "limit", "used"} :
            AsUpdated(r)[f] = IF r.headers[f] = None THEN state[f]
                              ELSE r.headers[f]
       /\ requestQueue' = requestQueue
       /\ r.kind = "http_error" => cache' = cache
       /\ r.kind = "ok" =>
            cache' = StoreResult(cache, tasks[workers[w].task].get, "project",
                                 1, FALSE)]_vars

\* After a stored getProject, an error response carrying only some of the
\* headers (remaining: 0) has arrived while another task was queued: the
\* remaining count is the header's, limit and used are as they were.
C36_Witness ==
  /\ ev = "partial"
  /\ Len(gets) >= 2 /\ gets[1].status = "value" /\ gets[2].status = "error"
  /\ Len(cache) > 0 /\ requestQueue # <<>>
  /\ state.remaining = 0 /\ state.used = 1 /\ state.limit = MaxLimit

\* ------------------------------- A cache with room for three entries

\* CACHE_MAX_SIZE set one above maxSize: room for an entry before and an
\* entry after the one that is set again.
roomySize == maxSize + 1

RoomySet(k, v, ttl) ==
  /\ cache' = cacheSetAt(cache, k, v, ttl, roomySize)
  /\ probe' = probe
  /\ ev' = IF Has(cache, k)
           THEN IF Len(cache) >= roomySize THEN "resetFull" ELSE "reset"
           ELSE "set"

RoomyNext ==
  \/ \E k \in CacheKeys, v \in Values, ttl \in Ttls \cup {None} :
       RoomySet(k, v, ttl) /\ UNCHANGED <<qvars, ovars>>
  \/ \E k \in CacheKeys : Get(k) /\ UNCHANGED <<qvars, ovars>>
  \/ \E k \in CacheKeys : Delete(k) /\ UNCHANGED <<qvars, ovars>>
  \/ Cleanup /\ UNCHANGED <<qvars, ovars>>
  \/ CacheTick /\ UNCHANGED <<qvars, ovars>>

SpecRoomy == CacheInit /\ [][RoomyNext]_vars

\* The keys of the Map in its iteration order, which is the eviction order.
KeyOrder(c) == [i \in 1..Len(c) |-> c[i].key]

\* C37: a set on a key that is already stored, made while the Map is full,
\* still removes the first (oldest-inserted) entry before writing: when the
\* key was not the first, the Map ends one entry below its maximum; and a key
\* set again that was not removed keeps its place in the eviction order, full
\* or not, rather than becoming the newest.
C37_ResetEvictsAndKeepsPlace ==
  [][\A k \in CacheKeys, v \in Values, ttl \in Ttls \cup {None} :
       (RoomySet(k, v, ttl) /\ Has(cache, k)) =>
         /\ EntryOf(cache', k).data = v /\ EntryOf(cache', k).age = 0
         /\ (Len(cache) = roomySize /\ k # FirstKey(cache)) =>
               /\ ~Has(cache', FirstKey(cache))
               /\ Len(cache') = roomySize - 1
               /\ KeyOrder(cache') = Tail(KeyOrder(cache))
         /\ (Len(cache) = roomySize /\ k = FirstKey(cache)) =>
               KeyOrder(cache') = Append(Tail(KeyOrder(cache)), k)
         /\ Len(cache) < roomySize => KeyOrder(cache') = KeyOrder(cache)]_vars

\* The full Map's second key has just been set again: the first entry is
\* gone, and the fresh entry stands before the older third one.
C37_Witness ==
  /\ ev = "resetFull"
  /\ Len(cache) = roomySize - 1
  /\ cache[1].age = 0 /\ cache[2].age > 0

\* ------------------------------------------- The ttl of stored entries

\* C38: every entry the orchestrator has in the Map for a project, the
\* metrics or a health carries the default ttl: whatever the quota state was
\* when it was written, getRecommendedCacheTTL() had no part in its ttl.
C38_StoredWithDefaultTtl ==
  \A i \in 1..Len(cache) : cache[i].ttl = defaultTtl

\* A project was fetched and stored; later a health get stored its metrics
\* and its health, in the step that used up the quota, where 30 minutes were
\* the recommended ttl.
C38_Witness ==
  /\ \E g \in 1..Len(gets) : gets[g].kind = "project" /\ gets[g].status = "value"
  /\ \E g \in 1..Len(gets) :
        /\ gets[g].kind = "health" /\ gets[g].status = "value"
        /\ StoredByDefault(cache, getMetricsKey(gets[g].repo), g)
        /\ StoredByDefault(cache, getHealthKey(gets[g].repo), g)
  /\ isNearLimit(state) /\ getRecommendedCacheTTL(state) # defaultTtl
====
